---- MODULE Spec2Model ----
(***************************************************************************)
(* Model of the Sahelys weekly-report backend (FastAPI + MongoDB).          *)
(* The state is the content of the four collections (users, reports,        *)
(* comments, messages), the create_report requests that are suspended       *)
(* between their existence check and their insert, the wall clock, and the  *)
(* response of the last completed request.  One action per route handler.   *)
(***************************************************************************)
EXTENDS Integers, Sequences, FiniteSets, Bags

\* ---------------------------------------------------------------- bounds
MaxUsers    == 3   \* ObjectIds handed out by the users collection
MaxReports  == 2   \* ObjectIds handed out by the reports collection
MaxComments == 1   \* ObjectIds handed out by the comments collection
MaxMessages == 2   \* ObjectIds handed out by the messages collection
MaxInflight == 2   \* create_report requests suspended at an await
MaxTime     == 2   \* readings of datetime.utcnow()
MaxAuthMessages == 1   \* messages sent while tokens go stale (SpecAuth)
MaxMailboxes == 2  \* mailboxes that account requests name (SpecAccounts)
MaxYears    == 2   \* calendar years that week strings name
MaxWeekNo   == 100 \* week numbers told apart once the year decides the comparison

UserIds    == 1..MaxUsers
ReportIds  == 1..MaxReports
CommentIds == 1..MaxComments
MessageIds == 1..MaxMessages

Weeks    == {"2024-W01", "2024-W02"}
NoWeek   == "absent"                  \* the document has no week_iso field
TaskLists == {<<3>>, <<1, 1>>} \* ReportBase.tasks, min_length 1
UpdateLists == {<<2, 2>>}             \* ReportUpdate.tasks when given
NoTasks  == << >>                     \* the document has no tasks field
NoTime   == 0                         \* read_at is None
NoId     == 0                         \* no query parameter / no target

Roles    == {"employee", "admin"}
Statuses == {"active", "inactive"}
Unset    == "absent"                  \* a None field of UserUpdate

\* an email address is a mailbox and a spelling of its local part, which
\* EmailStr keeps as written; str.lower() keeps the mailbox and yields the
\* lowercase spelling
Spellings == {"lower", "mixed"}
NoEmail   == <<0, "absent">>
lower(email) == <<email[1], "lower">>

Mailboxes == 1..MaxMailboxes
Emails    == {<<m, sp>> : m \in Mailboxes, sp \in Spellings}

\* one address per ObjectId, no two alike in any spelling
DistinctEmail(u) == <<u, "lower">>
admin_email == DistinctEmail(1)       \* settings.admin_email

\* a user document; "absent" marks a field the document does not have
UserInDB(email, role, status) ==
    [email |-> email, role |-> role, status |-> status, is_active |-> "absent"]

NoUser == [email |-> NoEmail, role |-> "absent", status |-> "absent",
           is_active |-> "absent"]

NoToken == "none"                     \* no token was issued for the id

VARIABLES users, nextUser, reports, nextReport, comments, nextComment,
          messages, nextMessage, creating, now, resp, tokens, wr, out

vars == <<users, nextUser, reports, nextReport, comments, nextComment,
          messages, nextMessage, creating, now, resp, tokens, wr, out>>

\* ------------------------------------------------------------ responses
Response(op, actor, target, status, ids) ==
    [op |-> op, actor |-> actor, target |-> target, status |-> status, ids |-> ids]

\* ------------------------------------------------------- auth dependencies
Issued == 1..(nextUser - 1)          \* ids for which a token can exist

get_current_user_from_db(u) ==
    IF users[u] = NoUser THEN "404" ELSE "ok"

require_admin_TokenRole(u) ==
    IF get_current_user_from_db(u) # "ok" THEN get_current_user_from_db(u)
    ELSE IF tokens[u] # "admin" THEN "403" ELSE "ok"

require_admin(u) ==
    IF get_current_user_from_db(u) # "ok" THEN get_current_user_from_db(u)
    ELSE IF users[u].role # "admin" THEN "403" ELSE "ok"

require_employee(u) ==
    IF get_current_user_from_db(u) # "ok" THEN get_current_user_from_db(u)
    ELSE IF users[u].role # "employee" THEN "403" ELSE "ok"

\* current_user.get("is_active", current_user.get("status") == "active")
is_active(doc) ==
    IF doc.is_active # "absent" THEN doc.is_active = "true"
    ELSE doc.status = "active"

require_active_user(u) ==
    IF get_current_user_from_db(u) # "ok" THEN get_current_user_from_db(u)
    ELSE IF ~is_active(users[u]) THEN "403" ELSE "ok"

\* ------------------------------------------------------------- helpers
RECURSIVE SumHours(_)
SumHours(tasks) ==
    IF tasks = << >> THEN 0 ELSE Head(tasks) + SumHours(Tail(tasks))

ReportById_Any(r) == reports

\* db.reports.find_one({"_id": ObjectId(report_id)})
ReportById(r) == {d \in reports : d.id = r}

OwnedReport_AnyOwner(r, u) == {d \in reports : d.id = r}

\* db.reports.find_one({"_id": ..., "user_id": ...})
OwnedReport(r, u) == {d \in reports : d.id = r /\ d.user_id = u}

ExistingReport_None(u, w) == {}

\* db.reports.find_one({"user_id": ..., "week_iso": ...})
ExistingReport(u, w) == {d \in reports : d.user_id = u /\ d.week_iso = w}

DuplicateKey_NoIndex(doc) == FALSE

\* unique index on (user_id, week_iso), partial on {week_iso: {$exists: true}}
DuplicateKey(doc) ==
    /\ doc.week_iso # NoWeek
    /\ \E d \in reports : d.user_id = doc.user_id /\ d.week_iso = doc.week_iso

ReportInDB(id, u, w, tasks) ==
    [id |-> id, user_id |-> u, week_iso |-> w, tasks |-> tasks,
     total_hours |-> 0, status |-> "submitted", title |-> FALSE,
     created_at |-> now]

calculate_total_hours(doc) ==
    [doc EXCEPT !.total_hours = SumHours(doc.tasks)]

\* ------------------------------------------------------- datetime_utils
\* a week string "YYYY-Www..." is the pair of the numbers its two parts spell
Years       == 2024..(2023 + MaxYears)
WeekNumbers == {0, 1, 2, 51, 52, 53, 99}   \* two-digit weeks that requests name
WeekStrings == {<<y, w>> : y \in Years, w \in WeekNumbers}
NoWeekString == <<0, 0>>

\* the characters of f"{week:02d}"
WeekDigits(w) ==
    IF w < 10 THEN <<0, w>>
    ELSE IF w < 100 THEN <<w \div 10, w % 10>>
    ELSE IF w < 1000 THEN <<w \div 100, (w \div 10) % 10, w % 10>>
    ELSE <<w \div 1000, (w \div 100) % 10, (w \div 10) % 10, w % 10>>

\* str <= str on digit strings: the first differing character decides, a
\* proper prefix is smaller
RECURSIVE StrLeq(_, _)
StrLeq(s, t) ==
    IF s = << >> THEN TRUE
    ELSE IF t = << >> THEN FALSE
    ELSE IF Head(s) # Head(t) THEN Head(s) < Head(t)
    ELSE StrLeq(Tail(s), Tail(t))

\* current_week <= end_week; the years have four digits each
WeekLeq(a, b) ==
    IF a[1] # b[1] THEN a[1] < b[1]
    ELSE StrLeq(WeekDigits(a[2]), WeekDigits(b[2]))

NextWeek_Wrap53(a) == IF a[2] = 53 THEN <<a[1] + 1, 1>> ELSE <<a[1], a[2] + 1>>

\* the week that follows in the loop of get_week_range
NextWeek(a) == IF a[2] = 52 THEN <<a[1] + 1, 1>> ELSE <<a[1], a[2] + 1>>

\* the list that get_week_range builds is kept as its first element, its
\* last element and the parity of its length
WrIdle == [pc |-> "idle", start |-> NoWeekString, end |-> NoWeekString,
           current |-> NoWeekString, first |-> NoWeekString,
           last |-> NoWeekString, odd |-> FALSE]

NoOutput == [op |-> "none"]

\* a date is a year and a number of days after January 1 of that year
IsLeap(y) == (y % 4 = 0 /\ y % 100 # 0) \/ y % 400 = 0

\* datetime(year, 1, 1).weekday(): Monday is 0, Sunday is 6
Jan1Weekday(y) ==
    (1 + 5 * ((y - 1) % 4) + 4 * ((y - 1) % 100) + 6 * ((y - 1) % 400) + 6) % 7

\* week_start of iso_week_to_date_range(week_iso)
iso_week_to_date_range(w) ==
    LET weekday == Jan1Weekday(w[1])
        days_to_monday == ((7 - weekday) % 7) + (IF weekday > 3 THEN 7 ELSE 0)
    IN  <<w[1], days_to_monday + 7 * (w[2] - 1)>>

\* the number of ISO weeks of a year: 53 when January 1 is a Thursday, or a
\* Wednesday in a leap year
WeeksInYear(y) ==
    IF Jan1Weekday(y) = 3 \/ (Jan1Weekday(y) = 2 /\ IsLeap(y)) THEN 53 ELSE 52

\* the day, counted from January 1, of the Monday of ISO week 1: the week
\* that holds the first Thursday of the year
Week1Monday(y) == IF Jan1Weekday(y) <= 3 THEN 0 - Jan1Weekday(y) ELSE 7 - Jan1Weekday(y)

\* date.isocalendar() formatted as f"{year}-W{week:02d}"
date_to_iso_week(date) ==
    LET y == date[1]
        n == (date[2] - Week1Monday(y)) \div 7 + 1
    IN  IF date[2] < Week1Monday(y) THEN <<y - 1, WeeksInYear(y - 1)>>
        ELSE IF n > WeeksInYear(y) THEN <<y + 1, n - WeeksInYear(y)>>
        ELSE <<y, n>>

\* the week strings that name a week of the ISO calendar
IsoWeeks == {<<y, n>> : y \in Years, n \in 1..53}

\* ---------------------------------------------------------------- Init
Init ==
    /\ users = [u \in UserIds |->
                  IF u = 1 THEN UserInDB(admin_email, "admin", "active") ELSE NoUser]
    /\ nextUser = 2
    /\ reports = {}
    /\ nextReport = 1
    /\ comments = {}
    /\ nextComment = 1
    /\ messages = {}
    /\ nextMessage = 1
    /\ creating = EmptyBag
    /\ now = 1
    /\ resp = Response("none", NoId, NoId, "none", {})
    /\ tokens = [u \in UserIds |-> NoToken]
    /\ wr = WrIdle
    /\ out = NoOutput

\* --------------------------------------------------------------- users
\* db.users.find_one({"email": email})
UserByEmail(email) == {u \in UserIds : users[u].email = email}

create_user(a, email, role, status) ==
    /\ a \in Issued
    /\ IF require_admin(a) # "ok"
       THEN /\ resp' = Response("create_user", a, NoId, require_admin(a), {})
            /\ UNCHANGED <<users, nextUser>>
       ELSE IF UserByEmail(email) # {}
       THEN /\ resp' = Response("create_user", a, NoId, "400", {})
            /\ UNCHANGED <<users, nextUser>>
       ELSE /\ nextUser <= MaxUsers
            /\ users' = [users EXCEPT ![nextUser] = UserInDB(email, role, status)]
            /\ nextUser' = nextUser + 1
            /\ resp' = Response("create_user", a, nextUser, "200", {})
    /\ UNCHANGED <<wr, out, tokens, reports, nextReport, comments, nextComment, messages,
                   nextMessage, creating, now>>

\* the "sub" claim of a token: the text of an ObjectId (objectid is the id it
\* spells) or some other text (objectid is NoId: ObjectId(sub) raises)
Subject(objectid, text) == [objectid |-> objectid, text |-> text]

\* create_access_token(data): the payload that jwt.decode gives back;
\* user_id = NoId stands for a payload without the key "user_id"
create_access_token(sub, user_id) == [sub |-> sub, user_id |-> user_id]

\* the token of login and refresh_token: "sub": str(user["_id"])
LoginToken(u) == create_access_token(Subject(u, NoEmail), NoId)

\* TokenData.user_id = payload.get("sub")
verify_token(token) == token.sub

\* get_current_user_from_db on a token: ObjectId(current_user.user_id)
\* raises InvalidId, an internal error, when the subject is not an ObjectId
current_user_status(token) ==
    IF verify_token(token).objectid = NoId THEN "500"
    ELSE get_current_user_from_db(verify_token(token).objectid)

\* the tokens a client holds: of the logins, and of the last registration
HeldTokens ==
    {LoginToken(u) : u \in {v \in Issued : tokens[v] # NoToken}}
      \cup (IF out.op = "register" THEN {out.access_token} ELSE {})

\* ---------------------------------------------------------------- auth
\* POST /auth/register with a well-formed email, a name and a password that
\* pass the checks; the stored document has is_active and role "user" and
\* no status field
register(email) ==
    /\ IF UserByEmail(lower(email)) # {}
       THEN /\ resp' = Response("register", NoId, NoId, "400", {})
            /\ UNCHANGED <<users, nextUser, out>>
       ELSE /\ nextUser <= MaxUsers
            /\ users' = [users EXCEPT ![nextUser] =
                  [email |-> lower(email), role |-> "user", status |-> "absent",
                   is_active |-> "true"]]
            /\ nextUser' = nextUser + 1
            /\ resp' = Response("register", nextUser, NoId, "200", {})
            /\ out' = [op |-> "register",
                       access_token |->
                           create_access_token(Subject(NoId, lower(email)), nextUser)]
    /\ UNCHANGED <<wr, tokens, reports, nextReport, comments, nextComment, messages,
                   nextMessage, creating, now>>

\* POST /auth/login with the right password: the token carries the id and
\* the role the user document has at this moment
login(email) ==
    /\ IF UserByEmail(email) = {}
       THEN /\ resp' = Response("login", NoId, NoId, "401", {})
            /\ UNCHANGED tokens
       ELSE \E u \in UserByEmail(email) :
               IF ~is_active(users[u])
               THEN /\ resp' = Response("login", u, NoId, "403", {})
                    /\ UNCHANGED tokens
               ELSE /\ tokens' = [tokens EXCEPT ![u] = users[u].role]
                    /\ resp' = Response("login", u, NoId, "200", {})
    /\ UNCHANGED <<wr, out, users, nextUser, reports, nextReport, comments, nextComment,
                   messages, nextMessage, creating, now>>

\* a new token for the bearer of a token, with the stored role
refresh_token(token) ==
    /\ token \in HeldTokens
    /\ IF current_user_status(token) # "ok"
       THEN /\ resp' = Response("refresh_token", verify_token(token).objectid, NoId,
                                current_user_status(token), {})
            /\ UNCHANGED tokens
       ELSE /\ tokens' = [tokens EXCEPT ![verify_token(token).objectid] =
                                            users[verify_token(token).objectid].role]
            /\ resp' = Response("refresh_token", verify_token(token).objectid, NoId,
                                "200", {})
    /\ UNCHANGED <<wr, out, users, nextUser, reports, nextReport, comments, nextComment,
                   messages, nextMessage, creating, now>>

\* ------------------------------------------------------------- reports
create_report_check(u, w, tasks) ==
    /\ u \in Issued
    /\ IF require_active_user(u) # "ok"
       THEN /\ resp' = Response("create_report", u, NoId, require_active_user(u), {})
            /\ UNCHANGED creating
       ELSE IF users[u].role # "employee"
       THEN /\ resp' = Response("create_report", u, NoId, "403", {})
            /\ UNCHANGED creating
       ELSE IF ExistingReport(u, w) # {}
       THEN /\ resp' = Response("create_report", u, NoId, "400", {})
            /\ UNCHANGED creating
       ELSE /\ BagCardinality(creating) < MaxInflight
            /\ creating' = creating (+) SetToBag({[user_id |-> u, week_iso |-> w, tasks |-> tasks]})
            /\ UNCHANGED resp
    /\ UNCHANGED <<wr, out, tokens, users, nextUser, reports, nextReport, comments, nextComment,
                   messages, nextMessage, now>>

create_report_insert(req) ==
    /\ BagIn(req, creating)
    /\ creating' = creating (-) SetToBag({req})
    /\ IF DuplicateKey(ReportInDB(nextReport, req.user_id, req.week_iso, req.tasks))
       THEN /\ resp' = Response("create_report", req.user_id, NoId, "500", {})
            /\ UNCHANGED <<reports, nextReport>>
       ELSE /\ nextReport <= MaxReports
            /\ reports' = reports \cup
                 {calculate_total_hours(
                     ReportInDB(nextReport, req.user_id, req.week_iso, req.tasks))}
            /\ nextReport' = nextReport + 1
            /\ resp' = Response("create_report", req.user_id, nextReport, "200", {nextReport})
    /\ UNCHANGED <<wr, out, tokens, users, nextUser, comments, nextComment, messages,
                   nextMessage, now>>

\* create_report when no other request runs between its existence check and
\* its insert (the serial schedule of create_report_check, create_report_insert)
create_report(u, w, tasks) ==
    /\ u \in Issued
    /\ IF require_active_user(u) # "ok"
       THEN /\ resp' = Response("create_report", u, NoId, require_active_user(u), {})
            /\ UNCHANGED <<reports, nextReport>>
       ELSE IF users[u].role # "employee"
       THEN /\ resp' = Response("create_report", u, NoId, "403", {})
            /\ UNCHANGED <<reports, nextReport>>
       ELSE IF ExistingReport(u, w) # {}
       THEN /\ resp' = Response("create_report", u, NoId, "400", {})
            /\ UNCHANGED <<reports, nextReport>>
       ELSE IF DuplicateKey(ReportInDB(nextReport, u, w, tasks))
       THEN /\ resp' = Response("create_report", u, NoId, "500", {})
            /\ UNCHANGED <<reports, nextReport>>
       ELSE /\ nextReport <= MaxReports
            /\ reports' = reports \cup
                 {calculate_total_hours(ReportInDB(nextReport, u, w, tasks))}
            /\ nextReport' = nextReport + 1
            /\ resp' = Response("create_report", u, nextReport, "200", {nextReport})
    /\ UNCHANGED <<wr, out, tokens, users, nextUser, comments, nextComment, messages,
                   nextMessage, creating, now>>

create_simple_report(u) ==
    /\ u \in Issued
    /\ IF require_active_user(u) # "ok"
       THEN /\ resp' = Response("create_simple_report", u, NoId, require_active_user(u), {})
            /\ UNCHANGED <<reports, nextReport>>
       ELSE /\ nextReport <= MaxReports
            /\ reports' = reports \cup
                 {[id |-> nextReport, user_id |-> u, week_iso |-> NoWeek,
                   tasks |-> NoTasks, total_hours |-> 0, status |-> "pending",
                   title |-> TRUE, created_at |-> now]}
            /\ nextReport' = nextReport + 1
            /\ resp' = Response("create_simple_report", u, nextReport, "200", {nextReport})
    /\ UNCHANGED <<wr, out, tokens, users, nextUser, comments, nextComment, messages,
                   nextMessage, creating, now>>

update_simple_report(u, r) ==
    /\ u \in Issued
    /\ IF require_active_user(u) # "ok"
       THEN /\ resp' = Response("update_simple_report", u, r, require_active_user(u), {})
            /\ UNCHANGED reports
       ELSE IF OwnedReport(r, u) = {}
       THEN /\ resp' = Response("update_simple_report", u, r, "404", {})
            /\ UNCHANGED reports
       ELSE IF \E d \in OwnedReport(r, u) : d.status # "pending"
       THEN /\ resp' = Response("update_simple_report", u, r, "403", {})
            /\ UNCHANGED reports
       ELSE /\ reports' = {IF d.id = r THEN [d EXCEPT !.title = TRUE] ELSE d : d \in reports}
            /\ resp' = Response("update_simple_report", u, r, "200", {r})
    /\ UNCHANGED <<wr, out, tokens, users, nextUser, nextReport, comments, nextComment, messages,
                   nextMessage, creating, now>>

update_data_merge(d, tasks) ==
    IF tasks # NoTasks
    THEN [d EXCEPT !.tasks = tasks, !.total_hours = d.total_hours + SumHours(tasks)]
    ELSE d

update_data_AlwaysTasks(d, tasks) ==
    [d EXCEPT !.tasks = tasks, !.total_hours = SumHours(tasks)]

\* the $set document built by update_report; tasks = NoTasks stands for
\* report_update.tasks is None
update_data(d, tasks) ==
    IF tasks # NoTasks
    THEN [d EXCEPT !.tasks = tasks, !.total_hours = SumHours(tasks)]
    ELSE d

\* ReportResponse(...) is built from the re-read document; a document
\* without week_iso raises KeyError, reported as 500 after the write
ReportResponseStatus(d) == IF d.week_iso = NoWeek THEN "500" ELSE "200"

update_report(u, r, tasks) ==
    /\ u \in Issued
    /\ IF require_employee(u) # "ok"
       THEN /\ resp' = Response("update_report", u, r, require_employee(u), {})
            /\ UNCHANGED reports
       ELSE IF OwnedReport(r, u) = {}
       THEN /\ resp' = Response("update_report", u, r, "404", {})
            /\ UNCHANGED reports
       ELSE /\ reports' = {IF d.id = r THEN update_data(d, tasks) ELSE d : d \in reports}
            /\ \E d \in OwnedReport(r, u) :
                  resp' = Response("update_report", u, r,
                                   ReportResponseStatus(update_data(d, tasks)),
                                   IF ReportResponseStatus(update_data(d, tasks)) = "200"
                                   THEN {r} ELSE {})
    /\ UNCHANGED <<wr, out, tokens, users, nextUser, nextReport, comments, nextComment, messages,
                   nextMessage, creating, now>>

CommentsOfReport_None(r) == {}

\* db.comments.delete_many({"report_id": ObjectId(report_id)})
CommentsOfReport(r) == {c \in comments : c.report_id = r}

delete_report(u, r) ==
    /\ u \in Issued
    /\ IF require_employee(u) # "ok"
       THEN /\ resp' = Response("delete_report", u, r, require_employee(u), {})
            /\ UNCHANGED <<reports, comments>>
       ELSE IF OwnedReport(r, u) = {}
       THEN /\ resp' = Response("delete_report", u, r, "404", {})
            /\ UNCHANGED <<reports, comments>>
       ELSE /\ comments' = comments \ CommentsOfReport(r)
            /\ reports' = {d \in reports : d.id # r}
            /\ resp' = Response("delete_report", u, r, "200", {})
    /\ UNCHANGED <<wr, out, tokens, users, nextUser, nextReport, nextComment, messages,
                   nextMessage, creating, now>>

get_report_status_NoOwnerCheck(u, r) ==
    IF get_current_user_from_db(u) # "ok" THEN get_current_user_from_db(u)
    ELSE IF ReportById(r) = {} THEN "404"
    ELSE IF \E d \in ReportById(r) : d.week_iso = NoWeek THEN "500"
    ELSE "200"

get_report_status_Conflated(u, r) ==
    IF get_current_user_from_db(u) # "ok" THEN get_current_user_from_db(u)
    ELSE IF ReportById(r) = {} THEN "404"
    ELSE IF users[u].role = "employee" /\ \E d \in ReportById(r) : d.user_id # u
    THEN "404"
    ELSE IF \E d \in ReportById(r) : d.week_iso = NoWeek THEN "500"
    ELSE "200"

\* status and returned report of GET /reports/{report_id}
get_report_status(u, r) ==
    IF get_current_user_from_db(u) # "ok" THEN get_current_user_from_db(u)
    ELSE IF ReportById(r) = {} THEN "404"
    ELSE IF users[u].role = "employee" /\ \E d \in ReportById(r) : d.user_id # u
    THEN "403"
    ELSE IF \E d \in ReportById(r) : ReportResponseStatus(d) # "200" THEN "500"
    ELSE "200"

get_report(u, r) ==
    /\ u \in Issued
    /\ resp' = Response("get_report", u, r, get_report_status(u, r),
                        IF get_report_status(u, r) = "200" THEN {r} ELSE {})
    /\ UNCHANGED <<wr, out, tokens, users, nextUser, reports, nextReport, comments, nextComment,
                   messages, nextMessage, creating, now>>

\* the $match stage of GET /reports; NoId / NoWeek stand for an absent
\* query parameter.  skip = 0 and limit = 50 (the defaults) return every match.
ReportFilters(uf, wf) ==
    {d \in reports : /\ (uf # NoId => d.user_id = uf)
                     /\ (wf # NoWeek => d.week_iso = wf)}

get_reports(u, uf, wf) ==
    /\ u \in Issued
    /\ IF get_current_user_from_db(u) # "ok"
       THEN resp' = Response("get_reports", u, NoId, get_current_user_from_db(u), {})
       ELSE resp' = Response("get_reports", u, NoId, "200",
                             {d.id : d \in ReportFilters(uf, wf)})
    /\ UNCHANGED <<wr, out, tokens, users, nextUser, reports, nextReport, comments, nextComment,
                   messages, nextMessage, creating, now>>

\* ------------------------------------------------------------ comments
NewContent == "text"                  \* CommentCreate.content
Contents   == {"text", "edited"}      \* CommentUpdate.content

create_comment(a, r) ==
    /\ a \in Issued
    /\ IF require_admin(a) # "ok"
       THEN /\ resp' = Response("create_comment", a, r, require_admin(a), {})
            /\ UNCHANGED <<comments, nextComment>>
       ELSE IF ReportById(r) = {}
       THEN /\ resp' = Response("create_comment", a, r, "404", {})
            /\ UNCHANGED <<comments, nextComment>>
       ELSE /\ nextComment <= MaxComments
            /\ comments' = comments \cup
                 {[id |-> nextComment, report_id |-> r, admin_id |-> a,
                   content |-> NewContent]}
            /\ nextComment' = nextComment + 1
            /\ resp' = Response("create_comment", a, r, "200", {nextComment})
    /\ UNCHANGED <<wr, out, tokens, users, nextUser, reports, nextReport, messages,
                   nextMessage, creating, now>>

OwnedComment_AnyAdmin(c, a) == {k \in comments : k.id = c}

\* db.comments.find_one({"_id": ..., "admin_id": ...})
OwnedComment(c, a) == {k \in comments : k.id = c /\ k.admin_id = a}

update_comment(a, c, content) ==
    /\ a \in Issued
    /\ IF require_admin(a) # "ok"
       THEN /\ resp' = Response("update_comment", a, c, require_admin(a), {})
            /\ UNCHANGED comments
       ELSE IF OwnedComment(c, a) = {}
       THEN /\ resp' = Response("update_comment", a, c, "404", {})
            /\ UNCHANGED comments
       ELSE /\ comments' = {IF k.id = c THEN [k EXCEPT !.content = content] ELSE k :
                              k \in comments}
            /\ resp' = Response("update_comment", a, c, "200", {c})
    /\ UNCHANGED <<wr, out, tokens, users, nextUser, reports, nextReport, nextComment, messages,
                   nextMessage, creating, now>>

delete_comment(a, c) ==
    /\ a \in Issued
    /\ IF require_admin(a) # "ok"
       THEN /\ resp' = Response("delete_comment", a, c, require_admin(a), {})
            /\ UNCHANGED comments
       ELSE IF OwnedComment(c, a) = {}
       THEN /\ resp' = Response("delete_comment", a, c, "404", {})
            /\ UNCHANGED comments
       ELSE /\ comments' = {k \in comments : k.id # c}
            /\ resp' = Response("delete_comment", a, c, "200", {})
    /\ UNCHANGED <<wr, out, tokens, users, nextUser, reports, nextReport, nextComment, messages,
                   nextMessage, creating, now>>

\* ------------------------------------------------------------ messages
MessageById(m) == {d \in messages : d.id = m}

ActiveEmployee_AnyUser(u) == u \in UserIds /\ users[u] # NoUser

\* db.users.find_one({"_id": ..., "role": "employee", "status": "active"})
ActiveEmployee(u) ==
    /\ u \in UserIds
    /\ users[u].role = "employee"
    /\ users[u].status = "active"

MessageInDB(id, sender, receiver) ==
    [id |-> id, sender_id |-> sender, receiver_id |-> receiver,
     read_status |-> FALSE, read_at |-> NoTime, created_at |-> now]

send_message(a, rcv) ==
    /\ a \in Issued
    /\ IF require_admin(a) # "ok"
       THEN /\ resp' = Response("send_message", a, rcv, require_admin(a), {})
            /\ UNCHANGED <<messages, nextMessage>>
       ELSE IF ~ActiveEmployee(rcv)
       THEN /\ resp' = Response("send_message", a, rcv, "404", {})
            /\ UNCHANGED <<messages, nextMessage>>
       ELSE /\ nextMessage <= MaxMessages
            /\ messages' = messages \cup {MessageInDB(nextMessage, a, rcv)}
            /\ nextMessage' = nextMessage + 1
            /\ resp' = Response("send_message", a, rcv, "200", {nextMessage})
    /\ UNCHANGED <<wr, out, tokens, users, nextUser, reports, nextReport, comments, nextComment,
                   creating, now>>

SeqRange(s) == {s[i] : i \in 1..Len(s)}

\* db.users.find({"_id": {"$in": ids}, "role": "employee", "status": "active"})
Receivers(receiver_ids) == {u \in SeqRange(receiver_ids) : ActiveEmployee(u)}

\* len(receivers) != len(message_data.receiver_ids)
BroadcastRejected(receiver_ids) ==
    Cardinality(Receivers(receiver_ids)) # Len(receiver_ids)

\* the documents handed to insert_many: one per receiver found, with fresh ids
RECURSIVE MessagesToInsert(_, _, _)
MessagesToInsert(a, rcvs, id) ==
    IF rcvs = {} THEN {}
    ELSE LET r == CHOOSE x \in rcvs : \A y \in rcvs : x <= y
         IN  {MessageInDB(id, a, r)} \cup MessagesToInsert(a, rcvs \ {r}, id + 1)

broadcast_message(a, receiver_ids) ==
    /\ a \in Issued
    /\ IF require_admin(a) # "ok"
       THEN /\ resp' = Response("broadcast_message", a, NoId, require_admin(a), {})
            /\ UNCHANGED <<messages, nextMessage>>
       ELSE IF BroadcastRejected(receiver_ids)
       THEN /\ resp' = Response("broadcast_message", a, NoId, "400", {})
            /\ UNCHANGED <<messages, nextMessage>>
       ELSE /\ nextMessage + Len(receiver_ids) - 1 <= MaxMessages
            /\ messages' = messages \cup
                  MessagesToInsert(a, Receivers(receiver_ids), nextMessage)
            /\ nextMessage' = nextMessage + Cardinality(Receivers(receiver_ids))
            /\ resp' = Response("broadcast_message", a, NoId, "200",
                  {d.id : d \in MessagesToInsert(a, Receivers(receiver_ids), nextMessage)})
    /\ UNCHANGED <<wr, out, tokens, users, nextUser, reports, nextReport, comments, nextComment,
                   creating, now>>

SetRead_StatusOnly(d) == [d EXCEPT !.read_status = TRUE]

\* {"$set": {"read_status": True, "read_at": datetime.utcnow()}}
SetRead(d) == [d EXCEPT !.read_status = TRUE, !.read_at = now]

MessageForbidden_Never(d, u) == FALSE

\* not user_is_sender and not user_is_receiver
MessageForbidden(d, u) == d.sender_id # u /\ d.receiver_id # u

get_message(u, m) ==
    /\ u \in Issued
    /\ IF get_current_user_from_db(u) # "ok"
       THEN /\ resp' = Response("get_message", u, m, get_current_user_from_db(u), {})
            /\ UNCHANGED messages
       ELSE IF MessageById(m) = {}
       THEN /\ resp' = Response("get_message", u, m, "404", {})
            /\ UNCHANGED messages
       ELSE IF \E d \in MessageById(m) : MessageForbidden(d, u)
       THEN /\ resp' = Response("get_message", u, m, "403", {})
            /\ UNCHANGED messages
       ELSE /\ messages' = {IF d.id = m /\ d.receiver_id = u /\ ~d.read_status
                            THEN SetRead(d) ELSE d : d \in messages}
            /\ resp' = Response("get_message", u, m, "200", {m})
    /\ UNCHANGED <<wr, out, tokens, users, nextUser, reports, nextReport, comments, nextComment,
                   nextMessage, creating, now>>

ReceivedMessage_AnyReceiver(m, u) == {d \in messages : d.id = m}

\* db.messages.find_one({"_id": ..., "receiver_id": ...})
ReceivedMessage(m, u) == {d \in messages : d.id = m /\ d.receiver_id = u}

mark_message_as_read(u, m) ==
    /\ u \in Issued
    /\ IF require_employee(u) # "ok"
       THEN /\ resp' = Response("mark_message_as_read", u, m, require_employee(u), {})
            /\ UNCHANGED messages
       ELSE IF ReceivedMessage(m, u) = {}
       THEN /\ resp' = Response("mark_message_as_read", u, m, "404", {})
            /\ UNCHANGED messages
       ELSE /\ messages' = {IF d.id = m THEN SetRead(d) ELSE d : d \in messages}
            /\ resp' = Response("mark_message_as_read", u, m, "200", {m})
    /\ UNCHANGED <<wr, out, tokens, users, nextUser, reports, nextReport, comments, nextComment,
                   nextMessage, creating, now>>

delete_message(a, m) ==
    /\ a \in Issued
    /\ IF require_admin(a) # "ok"
       THEN /\ resp' = Response("delete_message", a, m, require_admin(a), {})
            /\ UNCHANGED messages
       ELSE IF {d \in MessageById(m) : d.sender_id = a} = {}
       THEN /\ resp' = Response("delete_message", a, m, "404", {})
            /\ UNCHANGED messages
       ELSE /\ messages' = {d \in messages : d.id # m}
            /\ resp' = Response("delete_message", a, m, "200", {})
    /\ UNCHANGED <<wr, out, tokens, users, nextUser, reports, nextReport, comments, nextComment,
                   nextMessage, creating, now>>

\* time passes between two readings of datetime.utcnow()
Tick ==
    /\ now < MaxTime
    /\ now' = now + 1
    /\ UNCHANGED <<wr, out, tokens, users, nextUser, reports, nextReport, comments, nextComment,
                   messages, nextMessage, creating, resp>>

\* ------------------------------------------------- users: update, delete
\* the $set document of update_user applied to the stored document
user_update(doc, role, status) ==
    [doc EXCEPT !.role   = IF role # Unset THEN role ELSE @,
                !.status = IF status # Unset THEN status ELSE @]

\* UserResponse(...) is built from the re-read document; a document
\* without a status field raises KeyError, reported as 500 after the write
UserResponseStatus(doc) == IF doc.status = "absent" THEN "500" ELSE "200"

update_user(a, target, role, status) ==
    /\ a \in Issued
    /\ IF require_admin(a) # "ok"
       THEN /\ resp' = Response("update_user", a, target, require_admin(a), {})
            /\ UNCHANGED users
       ELSE IF users[target] = NoUser
       THEN /\ resp' = Response("update_user", a, target, "404", {})
            /\ UNCHANGED users
       ELSE /\ users' = [users EXCEPT ![target] = user_update(@, role, status)]
            /\ resp' = Response("update_user", a, target,
                                UserResponseStatus(user_update(users[target], role, status)),
                                {})
    /\ UNCHANGED <<wr, out, tokens, nextUser, reports, nextReport, comments, nextComment, messages,
                   nextMessage, creating, now>>

MessagesOfUser_SenderOnly(target) == {d \in messages : d.sender_id = target}

\* db.messages.delete_many({"$or": [{"sender_id": U}, {"receiver_id": U}]})
MessagesOfUser(target) ==
    {d \in messages : d.sender_id = target \/ d.receiver_id = target}

delete_user(a, target) ==
    /\ a \in Issued
    /\ IF require_admin(a) # "ok"
       THEN /\ resp' = Response("delete_user", a, target, require_admin(a), {})
            /\ UNCHANGED <<users, reports, comments, messages>>
       ELSE IF users[target] = NoUser
       THEN /\ resp' = Response("delete_user", a, target, "404", {})
            /\ UNCHANGED <<users, reports, comments, messages>>
       ELSE IF target = a
       THEN /\ resp' = Response("delete_user", a, target, "400", {})
            /\ UNCHANGED <<users, reports, comments, messages>>
       ELSE /\ reports' = {d \in reports : d.user_id # target}
            /\ comments' = {c \in comments : c.admin_id # target}
            /\ messages' = messages \ MessagesOfUser(target)
            /\ users' = [users EXCEPT ![target] = NoUser]
            /\ resp' = Response("delete_user", a, target, "200", {})
    /\ UNCHANGED <<wr, out, tokens, nextUser, nextReport, nextComment, nextMessage, creating, now>>

\* ------------------------------------------------------- get_week_range
\* get_week_range(start_week, end_week) up to the head of its while loop;
\* both strings pass validate_iso_week_format
get_week_range_call(start, end) ==
    /\ wr.pc = "idle"
    /\ wr' = [pc |-> "loop", start |-> start, end |-> end, current |-> start,
              first |-> NoWeekString, last |-> NoWeekString, odd |-> FALSE]
    /\ UNCHANGED <<users, nextUser, reports, nextReport, comments, nextComment,
                   messages, nextMessage, creating, now, resp, tokens, out>>

\* the next value of current_week.  Once the week number has passed
\* MaxWeekNo in a year before the year of end_week, the comparison with
\* end_week is decided by the year, which the loop no longer changes: all
\* larger week numbers behave alike and are kept as one.
LoopNextWeek(current, end) ==
    IF NextWeek(current)[2] > MaxWeekNo /\ current[1] < end[1]
    THEN current
    ELSE NextWeek(current)

\* one test of the while condition and, if it holds, one run of the body
get_week_range_loop ==
    /\ wr.pc = "loop"
    /\ IF WeekLeq(wr.current, wr.end)
       THEN wr' = [wr EXCEPT
                     !.first = IF wr.first = NoWeekString THEN wr.current ELSE @,
                     !.last = wr.current,
                     !.odd = ~@,
                     !.current = LoopNextWeek(wr.current, wr.end)]
       ELSE wr' = [wr EXCEPT !.pc = "done"]
    /\ UNCHANGED <<users, nextUser, reports, nextReport, comments, nextComment,
                   messages, nextMessage, creating, now, resp, tokens, out>>

\* return weeks
get_week_range_return ==
    /\ wr.pc = "done"
    /\ wr' = WrIdle
    /\ UNCHANGED <<users, nextUser, reports, nextReport, comments, nextComment,
                   messages, nextMessage, creating, now, resp, tokens, out>>

\* ------------------------------------------------------ weekly statistics
WeeksAscending == <<"2024-W01", "2024-W02">>   \* Weeks in string order
InvalidWeek == "2024-1"                        \* fails validate_iso_week_format
WeekArgs == Weeks \cup {NoWeek, InvalidWeek}   \* NoWeek: the parameter is None

validate_iso_week_format(w) == w \in Weeks

WeekRank(w) == CHOOSE i \in 1..Len(WeeksAscending) : WeeksAscending[i] = w

\* {"$match": filters}: a range on week_iso never matches a document that
\* has no week_iso; end_week alone adds no filter
StatsMatch(start_week, end_week) ==
    IF start_week # NoWeek /\ end_week # NoWeek
    THEN {d \in reports : /\ d.week_iso # NoWeek
                          /\ WeekRank(d.week_iso) >= WeekRank(start_week)
                          /\ WeekRank(d.week_iso) <= WeekRank(end_week)}
    ELSE IF start_week # NoWeek
    THEN {d \in reports : /\ d.week_iso # NoWeek
                          /\ WeekRank(d.week_iso) >= WeekRank(start_week)}
    ELSE reports

RECURSIVE SumTotalHours(_)
SumTotalHours(docs) ==
    IF docs = {} THEN 0
    ELSE LET d == CHOOSE x \in docs : TRUE
         IN  d.total_hours + SumTotalHours(docs \ {d})

\* round(total / n, 2), in hundredths of an hour
AverageHours(total, n) == (200 * total + n) \div (2 * n)

StatsGroup_AllDocs(docs, key) == docs

\* the documents that "$group" with "_id": "$week_iso" puts under one key
StatsGroup(docs, key) == {d \in docs : d.week_iso = key}

\* the "$group" and "$project" stages for one key
WeekStats(docs, key) ==
    LET group == StatsGroup(docs, key)
        employees == {d.user_id : d \in group}
    IN  [week_iso |-> key,
         total_reports |-> Cardinality(group),
         total_hours |-> SumTotalHours(group),
         employees_reported |-> Cardinality(employees),
         average_hours_per_employee |->
             IF Cardinality(employees) > 0
             THEN AverageHours(SumTotalHours(group), Cardinality(employees))
             ELSE 0]

\* {"$sort": {"week_iso": -1}} over the group keys
RECURSIVE SortDescending(_)
SortDescending(keys) ==
    IF keys = {} THEN << >>
    ELSE LET top == CHOOSE k \in keys : \A j \in keys : WeekRank(j) <= WeekRank(k)
         IN  <<top>> \o SortDescending(keys \ {top})

StatsOutput(op, actor, status, rows) ==
    [op |-> op, actor |-> actor, status |-> status, rows |-> rows]

get_weekly_stats(a, start_week, end_week) ==
    /\ a \in Issued
    /\ IF require_admin(a) # "ok"
       THEN out' = StatsOutput("get_weekly_stats", a, require_admin(a), << >>)
       ELSE IF /\ start_week # NoWeek
               /\ \/ ~validate_iso_week_format(start_week)
                  \/ end_week # NoWeek /\ ~validate_iso_week_format(end_week)
       THEN out' = StatsOutput("get_weekly_stats", a, "400", << >>)
       ELSE LET docs == StatsMatch(start_week, end_week)
                keys == {d.week_iso : d \in docs}
            IN  IF NoWeek \in keys
                \* the group of the documents without week_iso has week_iso
                \* null, which WeeklyStats(week_iso: str) refuses
                THEN out' = StatsOutput("get_weekly_stats", a, "500", << >>)
                ELSE out' = StatsOutput("get_weekly_stats", a, "200",
                                [i \in 1..Cardinality(keys) |->
                                    WeekStats(docs, SortDescending(keys)[i])])
    /\ UNCHANGED <<users, nextUser, reports, nextReport, comments, nextComment,
                   messages, nextMessage, creating, now, resp, tokens, wr>>

\* the week_stats that export_weekly_summary_pdf hands to the PDF service
export_weekly_summary_pdf(a, week_iso) ==
    /\ a \in Issued
    /\ IF require_admin(a) # "ok"
       THEN out' = StatsOutput("export_weekly_summary_pdf", a, require_admin(a), << >>)
       ELSE IF ~validate_iso_week_format(week_iso)
       THEN out' = StatsOutput("export_weekly_summary_pdf", a, "400", << >>)
       ELSE LET docs == {d \in reports : d.week_iso = week_iso}
            IN  IF docs = {}
                THEN out' = StatsOutput("export_weekly_summary_pdf", a, "200",
                                <<[week_iso |-> week_iso, total_reports |-> 0,
                                   total_hours |-> 0, employees_reported |-> 0,
                                   average_hours_per_employee |-> 0]>>)
                ELSE out' = StatsOutput("export_weekly_summary_pdf", a, "200",
                                <<WeekStats(docs, week_iso)>>)
    /\ UNCHANGED <<users, nextUser, reports, nextReport, comments, nextComment,
                   messages, nextMessage, creating, now, resp, tokens, wr>>

\* --------------------------------------------------------------- dashboard
\* the value of the "read" field of a message document: messages are stored
\* with read_status and read_at, no document has a field named "read"
MessageRead(m) == "absent"

\* find({}).sort("created_at", -1): every order of the documents that is
\* descending in created_at (documents of equal created_at in any order)
SortedByCreatedAt(docs) ==
    {s \in [1..Cardinality(docs) -> docs] :
        /\ \A i, j \in 1..Cardinality(docs) : i # j => s[i] # s[j]
        /\ \A i, j \in 1..Cardinality(docs) : i < j => s[i].created_at >= s[j].created_at}

\* .limit(n).to_list(n)
Limit(s, n) == SubSeq(s, 1, IF Len(s) < n THEN Len(s) ELSE n)

Activity(type, doc) == [id |-> doc.id, type |-> type, timestamp |-> doc.created_at]

\* recent_activity.sort(key=timestamp, reverse=True) on the message entries
\* followed by the report entries, each already descending: the stable sort
\* keeps a message before a report of the same timestamp
RECURSIVE SortActivity(_, _)
SortActivity(ms, rs) ==
    IF ms = << >> THEN rs
    ELSE IF rs = << >> THEN ms
    ELSE IF Head(ms).timestamp >= Head(rs).timestamp
    THEN <<Head(ms)>> \o SortActivity(Tail(ms), rs)
    ELSE <<Head(rs)>> \o SortActivity(ms, Tail(rs))

get_dashboard_stats(u) ==
    /\ u \in Issued
    /\ IF get_current_user_from_db(u) # "ok"
       THEN out' = [op |-> "get_dashboard_stats", actor |-> u,
                    status |-> get_current_user_from_db(u)]
       ELSE \E ms \in SortedByCreatedAt(messages), rs \in SortedByCreatedAt(reports) :
              LET recent_messages == Limit(ms, 3)
                  recent_reports == Limit(rs, 2)
                  recent_activity ==
                      SortActivity(
                          [i \in 1..Len(recent_messages) |-> Activity("message", recent_messages[i])],
                          [i \in 1..Len(recent_reports) |-> Activity("report", recent_reports[i])])
              IN  out' = [op |-> "get_dashboard_stats", actor |-> u, status |-> "200",
                          total_messages |-> Cardinality(messages),
                          unread_messages |->
                              Cardinality({m \in messages : MessageRead(m) = "false"}),
                          total_reports |-> Cardinality(reports),
                          pending_reports |->
                              Cardinality({d \in reports : d.status = "pending"}),
                          recent_activity |-> Limit(recent_activity, 5)]
    /\ UNCHANGED <<users, nextUser, reports, nextReport, comments, nextComment,
                   messages, nextMessage, creating, now, resp, tokens, wr>>

\* ------------------------------------------- ISO week <-> date conversion
convert_week_to_date(w) ==
    /\ out' = [op |-> "iso_week_to_date_range", week |-> w,
               date |-> iso_week_to_date_range(w)]
    /\ UNCHANGED <<users, nextUser, reports, nextReport, comments, nextComment,
                   messages, nextMessage, creating, now, resp, tokens, wr>>

convert_date_to_week ==
    /\ out.op = "iso_week_to_date_range"
    /\ out' = [op |-> "date_to_iso_week", week |-> out.week, date |-> out.date,
               result |-> date_to_iso_week(out.date)]
    /\ UNCHANGED <<users, nextUser, reports, nextReport, comments, nextComment,
                   messages, nextMessage, creating, now, resp, tokens, wr>>

\* ------------------------------------------------------- specifications
ReceiverLists ==
    {<<x>> : x \in UserIds} \cup {<<x, y>> : x \in UserIds, y \in UserIds}

\* every route, create_report suspended at its await
Next ==
    \/ \E a \in UserIds, e \in Emails \cup {DistinctEmail(nextUser)},
          role \in Roles, status \in Statuses : create_user(a, e, role, status)
    \/ \E e \in Emails : register(e)
    \/ \E e \in Emails \cup {DistinctEmail(u) : u \in UserIds} : login(e)
    \/ \E a \in UserIds, t \in UserIds, role \in Roles \cup {Unset},
          status \in Statuses \cup {Unset} : update_user(a, t, role, status)
    \/ \E a \in UserIds, t \in UserIds : delete_user(a, t)
    \/ \E u \in UserIds, w \in Weeks, t \in TaskLists : create_report_check(u, w, t)
    \/ \E req \in BagToSet(creating) : create_report_insert(req)
    \/ \E u \in UserIds : create_simple_report(u)
    \/ \E u \in UserIds, r \in ReportIds : update_simple_report(u, r)
    \/ \E u \in UserIds, r \in ReportIds, t \in UpdateLists \cup {NoTasks} : update_report(u, r, t)
    \/ \E u \in UserIds, r \in ReportIds : delete_report(u, r)
    \/ \E u \in UserIds, r \in ReportIds : get_report(u, r)
    \/ \E u \in UserIds, uf \in UserIds \cup {NoId}, wf \in Weeks \cup {NoWeek} :
          get_reports(u, uf, wf)
    \/ \E a \in UserIds, r \in ReportIds : create_comment(a, r)
    \/ \E a \in UserIds, c \in CommentIds, t \in Contents : update_comment(a, c, t)
    \/ \E a \in UserIds, c \in CommentIds : delete_comment(a, c)
    \/ \E a \in UserIds, rcv \in UserIds : send_message(a, rcv)
    \/ \E a \in UserIds, rcvs \in ReceiverLists : broadcast_message(a, rcvs)
    \/ \E u \in UserIds, m \in MessageIds : get_message(u, m)
    \/ \E u \in UserIds, m \in MessageIds : mark_message_as_read(u, m)
    \/ \E a \in UserIds, m \in MessageIds : delete_message(a, m)
    \/ \E token \in HeldTokens : refresh_token(token)
    \/ \E a \in UserIds, sw \in WeekArgs, ew \in WeekArgs : get_weekly_stats(a, sw, ew)
    \/ \E a \in UserIds, w \in Weeks \cup {InvalidWeek} : export_weekly_summary_pdf(a, w)
    \/ \E u \in UserIds : get_dashboard_stats(u)
    \/ Tick

Spec == Init /\ [][Next]_vars

\* report creation under every interleaving of concurrent create_report requests
NextCreate ==
    \/ \E a \in UserIds, status \in Statuses :
          create_user(a, DistinctEmail(nextUser), "employee", status)
    \/ \E u \in UserIds, w \in Weeks, t \in TaskLists : create_report_check(u, w, t)
    \/ \E req \in BagToSet(creating) : create_report_insert(req)
    \/ \E u \in UserIds : create_simple_report(u)
    \/ \E u \in UserIds, r \in ReportIds : delete_report(u, r)

SpecCreate == Init /\ [][NextCreate]_vars

\* the report and comment routes, one request at a time
NextReports ==
    \/ \E a \in UserIds, status \in Statuses :
          create_user(a, DistinctEmail(nextUser), "employee", status)
    \/ \E u \in UserIds, w \in Weeks, t \in TaskLists : create_report(u, w, t)
    \/ \E u \in UserIds : create_simple_report(u)
    \/ \E u \in UserIds, r \in ReportIds : update_simple_report(u, r)
    \/ \E u \in UserIds, r \in ReportIds, t \in UpdateLists \cup {NoTasks} : update_report(u, r, t)
    \/ \E u \in UserIds, r \in ReportIds : delete_report(u, r)
    \/ \E u \in UserIds, r \in ReportIds : get_report(u, r)
    \/ \E u \in UserIds, uf \in UserIds \cup {NoId}, wf \in Weeks \cup {NoWeek} :
          get_reports(u, uf, wf)
    \/ \E a \in UserIds, r \in ReportIds : create_comment(a, r)

SpecReports == Init /\ [][NextReports]_vars

\* the message routes
NextMessages ==
    \/ \E a \in UserIds, role \in Roles, status \in Statuses :
          create_user(a, DistinctEmail(nextUser), role, status)
    \/ \E a \in UserIds, rcv \in UserIds : send_message(a, rcv)
    \/ \E a \in UserIds, rcvs \in ReceiverLists : broadcast_message(a, rcvs)
    \/ \E u \in UserIds, m \in MessageIds : get_message(u, m)
    \/ \E u \in UserIds, m \in MessageIds : mark_message_as_read(u, m)
    \/ \E a \in UserIds, m \in MessageIds : delete_message(a, m)
    \/ \E a \in UserIds, t \in UserIds : delete_user(a, t)
    \/ Tick

SpecMessages == Init /\ [][NextMessages]_vars

\* user administration with data to cascade over
NextUsers ==
    \/ \E a \in UserIds, role \in Roles, status \in Statuses :
          create_user(a, DistinctEmail(nextUser), role, status)
    \/ \E a \in UserIds, t \in UserIds : delete_user(a, t)
    \/ \E u \in UserIds, w \in Weeks, t \in TaskLists : create_report(u, w, t)
    \/ \E u \in UserIds : create_simple_report(u)
    \/ \E a \in UserIds, r \in ReportIds : create_comment(a, r)
    \/ \E a \in UserIds, rcv \in UserIds : send_message(a, rcv)

SpecUsers == Init /\ [][NextUsers]_vars

\* the comment routes, with reports to comment and users of both roles
NextComments ==
    \/ \E a \in UserIds, role \in Roles, status \in Statuses :
          create_user(a, DistinctEmail(nextUser), role, status)
    \/ \E u \in UserIds : create_simple_report(u)
    \/ \E a \in UserIds, r \in ReportIds : create_comment(a, r)
    \/ \E a \in UserIds, c \in CommentIds, t \in Contents : update_comment(a, c, t)
    \/ \E a \in UserIds, c \in CommentIds : delete_comment(a, c)

SpecComments == Init /\ [][NextComments]_vars

\* tokens that outlive a change of role or a deletion of their user
NextAuth ==
    \/ \E a \in UserIds, role \in Roles :
          create_user(a, DistinctEmail(nextUser), role, "active")
    \/ \E u \in UserIds : login(DistinctEmail(u))
    \/ \E a \in UserIds, t \in UserIds, role \in Roles : update_user(a, t, role, Unset)
    \/ \E a \in UserIds, t \in UserIds : delete_user(a, t)
    \/ \E a \in UserIds, rcv \in UserIds :
          nextMessage <= MaxAuthMessages /\ send_message(a, rcv)
    \/ \E u \in UserIds, m \in MessageIds : mark_message_as_read(u, m)

SpecAuth == Init /\ [][NextAuth]_vars

\* account creation by an admin and by self-registration
NextAccounts ==
    \/ \E a \in UserIds, e \in Emails, role \in Roles, status \in Statuses :
          create_user(a, e, role, status)
    \/ \E e \in Emails : register(e)
    \/ \E a \in UserIds, t \in UserIds, status \in Statuses :
          update_user(a, t, Unset, status)
    \/ \E a \in UserIds, t \in UserIds : delete_user(a, t)

SpecAccounts == Init /\ [][NextAccounts]_vars

\* calls of get_week_range; a call that has started keeps running
NextWeeks ==
    \/ \E start \in WeekStrings, end \in WeekStrings : get_week_range_call(start, end)
    \/ get_week_range_loop
    \/ get_week_range_return

SpecWeeks == Init /\ [][NextWeeks]_vars /\ WF_vars(get_week_range_loop)

\* the statistics routes over week reports and simple reports
NextStats ==
    \/ \E a \in UserIds : create_user(a, DistinctEmail(nextUser), "employee", "active")
    \/ \E u \in UserIds, w \in Weeks, t \in TaskLists : create_report(u, w, t)
    \/ \E u \in UserIds : create_simple_report(u)
    \/ \E u \in UserIds, r \in ReportIds : get_report(u, r)
    \/ \E a \in UserIds, sw \in WeekArgs, ew \in WeekArgs : get_weekly_stats(a, sw, ew)
    \/ \E a \in UserIds, w \in Weeks \cup {InvalidWeek} : export_weekly_summary_pdf(a, w)

SpecStats == Init /\ [][NextStats]_vars

\* the dashboard over messages and reports created at different times
NextDashboard ==
    \/ \E a \in UserIds : create_user(a, DistinctEmail(nextUser), "employee", "active")
    \/ \E u \in UserIds, w \in Weeks : create_report(u, w, <<3>>)
    \/ \E u \in UserIds : create_simple_report(u)
    \/ \E a \in UserIds, rcv \in UserIds :
          nextMessage <= MaxAuthMessages /\ send_message(a, rcv)
    \/ \E u \in UserIds, m \in MessageIds : mark_message_as_read(u, m)
    \/ Tick
    \/ \E u \in UserIds : get_dashboard_stats(u)

SpecDashboard == Init /\ [][NextDashboard]_vars

\* users that log in and are then made inactive, with reports and a message
NextInactive ==
    \/ \E a \in UserIds : create_user(a, DistinctEmail(nextUser), "employee", "active")
    \/ \E u \in UserIds : login(DistinctEmail(u))
    \/ \E u \in UserIds : refresh_token(LoginToken(u))
    \/ \E a \in UserIds, t \in UserIds : update_user(a, t, Unset, "inactive")
    \/ \E u \in UserIds : create_report(u, "2024-W01", <<3>>)
    \/ \E u \in UserIds, r \in ReportIds, t \in UpdateLists : update_report(u, r, t)
    \/ \E u \in UserIds, r \in ReportIds : delete_report(u, r)
    \/ \E a \in UserIds, rcv \in UserIds :
          nextMessage <= MaxAuthMessages /\ send_message(a, rcv)
    \/ \E u \in UserIds, m \in MessageIds : mark_message_as_read(u, m)

SpecInactive == Init /\ [][NextInactive]_vars

\* tokens of register and of login, presented to an authenticated route
NextTokens ==
    \/ \E a \in UserIds, e \in Emails, role \in Roles :
          create_user(a, e, role, "active")
    \/ \E e \in Emails : register(e)
    \/ \E e \in Emails : login(e)
    \/ \E token \in HeldTokens : refresh_token(token)

SpecTokens == Init /\ [][NextTokens]_vars

\* a week string converted to the start of its date range and back
NextDates ==
    \/ \E w \in IsoWeeks : convert_week_to_date(w)
    \/ convert_date_to_week

SpecDates == Init /\ [][NextDates]_vars

\* ================================================================ claims

\* C1: in every reachable state, under every interleaving of create_report
\* requests, no two distinct stored reports that carry a week_iso have the
\* same (user_id, week_iso).
C1_ReportUniqueness ==
    \A d1 \in reports, d2 \in reports :
        (/\ d1.week_iso # NoWeek
         /\ d1.user_id = d2.user_id
         /\ d1.week_iso = d2.week_iso) => d1 = d2

\* a concurrent create_report was rejected by the unique index while the
\* report of the request that won is stored
C1_Witness ==
    /\ resp.op = "create_report"
    /\ resp.status = "500"
    /\ \E d \in reports : d.user_id = resp.actor /\ d.week_iso # NoWeek

\* C2: a create_report whose existence check finds a report of the same user
\* and week answers 400 (the conflict) and writes nothing, so the count for
\* that (user, week) stays 1; an insert that meets no report of that user and
\* week succeeds and stores exactly one.
C2_SecondCreateConflicts ==
    [][/\ \A u \in UserIds, w \in Weeks :
            (/\ require_active_user(u) = "ok"
             /\ users[u].role = "employee"
             /\ \E d \in reports : d.user_id = u /\ d.week_iso = w
             /\ \E t \in TaskLists : create_report_check(u, w, t))
            => /\ resp'.status = "400"
               /\ reports' = reports
               /\ Cardinality({d \in reports : d.user_id = u /\ d.week_iso = w}) = 1
       /\ \A req \in BagToSet(creating) :
            (/\ ~\E d \in reports : d.user_id = req.user_id /\ d.week_iso = req.week_iso
             /\ create_report_insert(req))
            => /\ resp'.status = "200"
               /\ Cardinality({d \in reports' : d.user_id = req.user_id
                                               /\ d.week_iso = req.week_iso}) = 1
      ]_vars

\* the second create_report of an employee for a week was answered 400 while
\* the first report is stored
C2_Witness ==
    /\ resp.op = "create_report"
    /\ resp.status = "400"
    /\ Cardinality({d \in reports : d.user_id = resp.actor /\ d.week_iso # NoWeek}) >= 1

\* C3: the stored total_hours of every report equals the sum of the hours of
\* its stored tasks, and an update_report that carries a task list stores
\* that list and its sum only.
C3_TotalHoursIsSum ==
    /\ [](\A d \in reports : d.total_hours = SumHours(d.tasks))
    /\ [][\A u \in UserIds, r \in ReportIds, t \in UpdateLists :
            (reports' # reports /\ update_report(u, r, t))
            => \A d \in reports' :
                  d.id = r => d.tasks = t /\ d.total_hours = SumHours(t)]_vars

\* an update_report replaced the task list of a weekly report by <<2, 2>>
C3_Witness ==
    /\ resp.op = "update_report"
    /\ resp.status = "200"
    /\ \E d \in reports :
          d.id = resp.target /\ d.tasks = <<2, 2>> /\ d.total_hours = 4
\* C4 (as the code has it): an employee never obtains a report of another
\* user through get_report, and an admin is never refused a stored report;
\* get_reports applies no ownership filter: without query parameters it
\* returns every stored report to any authenticated caller.
C4_ReadScope ==
    [][/\ \A u \in UserIds, r \in ReportIds :
            (resp'.op = "get_report" /\ get_report(u, r))
            => /\ users[u].role = "employee"
                  => \A d \in reports : d.id \in resp'.ids => d.user_id = u
               /\ (users[u].role = "admin" /\ \E d \in reports : d.id = r)
                  => resp'.status \notin {"403", "404"}
       /\ \A u \in UserIds :
            (resp'.op = "get_reports" /\ users[u] # NoUser /\ get_reports(u, NoId, NoWeek))
            => resp'.ids = {d.id : d \in reports}
      ]_vars

\* get_reports answered with reports of two different owners
C4_Witness ==
    /\ resp.op = "get_reports"
    /\ users[resp.actor].role = "employee"
    /\ \E d1 \in reports, d2 \in reports :
          /\ d1.user_id # d2.user_id
          /\ {d1.id, d2.id} \subseteq resp.ids

\* C4 as stated: no report read operation hands an employee a report whose
\* user_id is another user's id.
C4_Original ==
    [][/\ \A u \in UserIds, r \in ReportIds :
            (resp'.op = "get_report" /\ users[u].role = "employee" /\ get_report(u, r))
            => \A d \in reports : d.id \in resp'.ids => d.user_id = u
       /\ \A u \in UserIds, uf \in UserIds \cup {NoId}, wf \in Weeks \cup {NoWeek} :
            (resp'.op = "get_reports" /\ users[u].role = "employee" /\ get_reports(u, uf, wf))
            => \A d \in reports : d.id \in resp'.ids => d.user_id = u
      ]_vars

C6_OwnerOnlyWrite ==
    [][/\ \A u \in UserIds, r \in ReportIds :
            (/\ resp'.op = "update_report"
             /\ \E t \in UpdateLists \cup {NoTasks} : update_report(u, r, t))
            => /\ comments' = comments
               /\ reports' # reports
                  => /\ users[u].role = "employee"
                     /\ \E d \in reports : d.id = r /\ d.user_id = u
                     /\ {d \in reports' : d.id # r} = {d \in reports : d.id # r}
               /\ (users[u].role = "employee" /\ ~\E d \in reports : d.id = r /\ d.user_id = u)
                  => resp'.status = "404" /\ reports' = reports
       /\ \A u \in UserIds, r \in ReportIds :
            (resp'.op = "delete_report" /\ delete_report(u, r))
            => /\ (reports' # reports \/ comments' # comments)
                  => /\ users[u].role = "employee"
                     /\ \E d \in reports : d.id = r /\ d.user_id = u
                     /\ reports' = {d \in reports : d.id # r}
                     /\ comments' = {c \in comments : c.report_id # r}
               /\ (users[u].role = "employee" /\ ~\E d \in reports : d.id = r /\ d.user_id = u)
                  => resp'.status = "404" /\ reports' = reports /\ comments' = comments
      ]_vars

\* an employee's update_report or delete_report on a commented report of
\* another employee was answered 404
C6_Witness ==
    /\ resp.op \in {"update_report", "delete_report"}
    /\ resp.status = "404"
    /\ users[resp.actor].role = "employee"
    /\ \E d \in reports : /\ d.id = resp.target
                          /\ d.user_id # resp.actor
                          /\ \E c \in comments : c.report_id = d.id
\* C7 as stated: a broadcast_message of an admin is rejected with the
\* messages unchanged when some receiver id is not an active employee, and
\* otherwise stores exactly one new message for each receiver.
C7_Original ==
    [][\A a \in UserIds, rcvs \in ReceiverLists :
          (/\ resp'.op = "broadcast_message"
           /\ require_admin(a) = "ok"
           /\ broadcast_message(a, rcvs))
          => IF \E i \in 1..Len(rcvs) : ~ActiveEmployee(rcvs[i])
             THEN resp'.status # "200" /\ messages' = messages
             ELSE /\ resp'.status = "200"
                  /\ messages \subseteq messages'
                  /\ \A u \in SeqRange(rcvs) :
                        Cardinality({d \in messages' \ messages :
                                        d.receiver_id = u /\ d.sender_id = a}) = 1
      ]_vars

\* C8 as stated: once a message is read, no later request changes its
\* read_status or its read_at.
C8_Original ==
    [][\A d \in messages :
          d.read_status
          => \A e \in messages' : e.id = d.id => e.read_status /\ e.read_at = d.read_at
      ]_vars

\* C9: for every stored message, read_at is set if and only if read_status
\* is true.
C9_ReadAtIffRead ==
    \A d \in messages : (d.read_at # NoTime) <=> d.read_status

\* a message was marked read by its receiver
C9_Witness ==
    /\ resp.op \in {"get_message", "mark_message_as_read"}
    /\ resp.status = "200"
    /\ \E d \in messages :
          d.id = resp.target /\ d.receiver_id = resp.actor /\ d.read_status

\* C10: a delete_user(U) answered 200 leaves no report with user_id U, no
\* comment with admin_id U, no message sent by or to U, and no user U.
C10_DeleteUserCascade ==
    [][\A a \in UserIds, t \in UserIds :
          (resp'.op = "delete_user" /\ resp'.status = "200" /\ delete_user(a, t))
          => /\ \A d \in reports' : d.user_id # t
             /\ \A c \in comments' : c.admin_id # t
             /\ \A m \in messages' : m.sender_id # t /\ m.receiver_id # t
             /\ users'[t] = NoUser
      ]_vars

\* a delete_user succeeded and the reports and messages stored before it
\* are gone
C10_Witness ==
    /\ resp.op = "delete_user"
    /\ resp.status = "200"
    /\ users[resp.target] = NoUser
    /\ nextReport > 1 /\ reports = {}
    /\ nextMessage > 1 /\ messages = {}

\* C11 as stated: a request that is answered with an error leaves the four
\* collections as they were before the request.
C11_Original ==
    [][resp'.status \notin {"200", "none"}
       => /\ users' = users
          /\ reports' = reports
          /\ comments' = comments
          /\ messages' = messages
      ]_vars

\* C12: a delete_report(R) answered 200 to the employee who owns R leaves no
\* comment with report_id R and no report R.
C12_DeleteReportCascade ==
    [][\A u \in UserIds, r \in ReportIds :
          (/\ resp'.op = "delete_report"
           /\ resp'.status = "200"
           /\ delete_report(u, r))
          => /\ \A c \in comments' : c.report_id # r
             /\ \A d \in reports' : d.id # r
      ]_vars

\* a delete_report succeeded on a report that carried a comment
C12_Witness ==
    /\ resp.op = "delete_report"
    /\ resp.status = "200"
    /\ nextComment > 1
    /\ comments = {}
    /\ \A d \in reports : d.id # resp.target

\* C13: a create_comment stores a comment only when a report with its
\* report_id is stored at that time; an admin's create_comment for a
\* report_id that is not stored is answered 404 and stores nothing.
C13_CommentNeedsReport ==
    [][\A a \in UserIds, r \in ReportIds :
          (resp'.op = "create_comment" /\ create_comment(a, r))
          => /\ comments' # comments
                => /\ \E d \in reports : d.id = r
                   /\ \E c \in comments' \ comments : c.report_id = r
                   /\ Cardinality(comments' \ comments) = 1
             /\ (users[a].role = "admin" /\ ~\E d \in reports : d.id = r)
                => resp'.status = "404" /\ comments' = comments
      ]_vars

\* an admin who had commented a stored report asked to comment a report id
\* that is not stored and got 404
C13_Witness ==
    /\ resp.op = "create_comment"
    /\ resp.status = "404"
    /\ users[resp.actor].role = "admin"
    /\ \A d \in reports : d.id # resp.target
    /\ \E c \in comments : \E d \in reports : d.id = c.report_id

\* C14: a comment is stored only by a create_comment of an admin, who
\* becomes its admin_id; update_comment and delete_comment change the
\* comments only for the admin who wrote the target comment, and only that
\* comment; any other caller is rejected and the comments stay as they were.
C14_AuthorOnly ==
    [][/\ \A a \in UserIds, r \in ReportIds :
            (resp'.op = "create_comment" /\ comments' # comments /\ create_comment(a, r))
            => /\ users[a].role = "admin"
               /\ \A k \in comments' \ comments : k.admin_id = a
       /\ \A a \in UserIds, c \in CommentIds :
            (/\ resp'.op \in {"update_comment", "delete_comment"}
             /\ \/ \E t \in Contents : update_comment(a, c, t)
                \/ delete_comment(a, c))
            => /\ comments' # comments
                  => /\ users[a].role = "admin"
                     /\ \E k \in comments : k.id = c /\ k.admin_id = a
                     /\ {k \in comments' : k.id # c} = {k \in comments : k.id # c}
               /\ (\E k \in comments : k.id = c /\ k.admin_id # a)
                  => resp'.status \in {"403", "404"} /\ comments' = comments
      ]_vars

\* an admin's update_comment or delete_comment on a comment written by
\* another admin was answered 404
C14_Witness ==
    /\ resp.op \in {"update_comment", "delete_comment"}
    /\ resp.status = "404"
    /\ users[resp.actor].role = "admin"
    /\ \E k \in comments : k.id = resp.target /\ k.admin_id # resp.actor

\* C15: send_message and broadcast_message store messages only when the
\* caller's stored role is admin and every receiver is a stored user with
\* role employee and status active; each stored message has the caller as
\* sender_id and a requested receiver as receiver_id.  In every other case
\* the messages stay as they were.
C15_SendAuthorised ==
    [][/\ \A a \in UserIds, rcv \in UserIds :
            (resp'.op = "send_message" /\ send_message(a, rcv))
            => IF /\ users[a].role = "admin"
                  /\ users[rcv].role = "employee"
                  /\ users[rcv].status = "active"
               THEN /\ messages \subseteq messages'
                    /\ \A d \in messages' \ messages :
                          d.sender_id = a /\ d.receiver_id = rcv
               ELSE messages' = messages /\ resp'.status # "200"
       /\ \A a \in UserIds, rcvs \in ReceiverLists :
            (resp'.op = "broadcast_message" /\ broadcast_message(a, rcvs))
            => IF /\ users[a].role = "admin"
                  /\ \A i \in 1..Len(rcvs) :
                        users[rcvs[i]].role = "employee" /\ users[rcvs[i]].status = "active"
               THEN /\ messages \subseteq messages'
                    /\ \A d \in messages' \ messages :
                          d.sender_id = a /\ d.receiver_id \in SeqRange(rcvs)
               ELSE messages' = messages /\ resp'.status # "200"
      ]_vars

\* an admin who had sent a message addressed one to an inactive employee and
\* was answered 404
C15_Witness ==
    /\ resp.op = "send_message"
    /\ resp.status = "404"
    /\ users[resp.actor].role = "admin"
    /\ users[resp.target].role = "employee"
    /\ users[resp.target].status = "inactive"
    /\ \E d \in messages : d.sender_id = resp.actor

\* C16: get_message answers 200 only to the sender or the receiver of the
\* message; a stored user who is neither gets 403, an id that is not stored
\* gets 404, and in both cases the messages stay as they were.
C16_GetMessageScope ==
    [][\A u \in UserIds, m \in MessageIds :
          (resp'.op = "get_message" /\ get_message(u, m))
          => /\ resp'.status = "200"
                => \E d \in messages :
                      d.id = m /\ (d.sender_id = u \/ d.receiver_id = u)
             /\ (/\ users[u] # NoUser
                 /\ \E d \in messages :
                       d.id = m /\ d.sender_id # u /\ d.receiver_id # u)
                => resp'.status = "403" /\ messages' = messages
             /\ (users[u] # NoUser /\ ~\E d \in messages : d.id = m)
                => resp'.status = "404" /\ messages' = messages
      ]_vars

\* a user asked for a stored, unread message of which they are neither
\* sender nor receiver and got 403
C16_Witness ==
    /\ resp.op = "get_message"
    /\ resp.status = "403"
    /\ \E d \in messages :
          /\ d.id = resp.target
          /\ d.sender_id # resp.actor
          /\ d.receiver_id # resp.actor
          /\ ~d.read_status

C18_LiveRole ==
    [][\A a \in UserIds :
          resp'.actor = a
          => /\ (/\ resp'.op \in {"create_user", "update_user", "delete_user",
                                   "send_message"}
                 /\ users[a] # NoUser
                 /\ users[a].role # "admin")
                => /\ resp'.status = "403"
                   /\ users' = users /\ messages' = messages
             /\ (/\ resp'.op = "mark_message_as_read"
                 /\ users[a] # NoUser
                 /\ users[a].role # "employee")
                => /\ resp'.status = "403"
                   /\ users' = users /\ messages' = messages
             /\ (/\ resp'.op \in {"create_user", "update_user", "delete_user",
                                   "send_message", "mark_message_as_read"}
                 /\ users[a] = NoUser)
                => /\ resp'.status = "404"
                   /\ users' = users /\ messages' = messages
      ]_vars

\* a user who logged in as admin and was then demoted to employee called an
\* admin-only route with that token and got 403
C18_Witness ==
    /\ resp.op \in {"create_user", "update_user", "delete_user", "send_message"}
    /\ resp.status = "403"
    /\ tokens[resp.actor] = "admin"
    /\ users[resp.actor].role = "employee"

\* C19 as stated: in every reachable state no two stored users have emails
\* that are equal when compared without regard to case.
C19_Original ==
    \A u \in UserIds, v \in UserIds :
        (/\ users[u] # NoUser
         /\ users[v] # NoUser
         /\ lower(users[u].email) = lower(users[v].email)) => u = v

\* C20 as stated: in every reachable state every stored user has a role in
\* {employee, admin} and a status in {active, inactive}.
C20_Original ==
    \A u \in UserIds :
        users[u] # NoUser
        => users[u].role \in Roles /\ users[u].status \in Statuses

\* C21 as stated: every call of get_week_range with two well-formed week
\* strings reaches its return.
C21_Original == (wr.pc = "loop") ~> (wr.pc = "done")

\* C22: for start <= end, both with week numbers in 1..52, the list that
\* get_week_range returns begins with start and ends with end, and every
\* element appended after the first is the week after the one before it:
\* the same year and the week number plus one, or week 1 of the next year
\* after week 52; week 53 is never appended.
C22_WeekRange ==
    /\ []((/\ wr.pc = "done"
           /\ wr.start[2] \in 1..52
           /\ wr.end[2] \in 1..52
           /\ \/ wr.start[1] < wr.end[1]
              \/ wr.start[1] = wr.end[1] /\ wr.start[2] <= wr.end[2])
          => wr.first = wr.start /\ wr.last = wr.end)
    /\ [][(/\ wr.pc = "loop"
           /\ wr.start[2] \in 1..52
           /\ wr.end[2] \in 1..52
           /\ wr.last # NoWeekString
           /\ wr'.last # wr.last)
          => /\ wr'.last[2] # 53
             /\ IF wr.last[2] = 52
                THEN wr'.last = <<wr.last[1] + 1, 1>>
                ELSE wr'.last = <<wr.last[1], wr.last[2] + 1>>
      ]_vars

\* get_week_range("2024-W51", "2025-W02") returned a list from 2024-W51 to
\* 2025-W02
C22_Witness ==
    /\ wr.pc = "done"
    /\ wr.start = <<2024, 51>>
    /\ wr.end = <<2025, 2>>
    /\ wr.first = <<2024, 51>>
    /\ wr.last = <<2025, 2>>

\* C23 as stated: for every week string that names a week of its ISO year,
\* date_to_iso_week(iso_week_to_date_range(w)[0]) is w.
C23_Original ==
    (out.op = "date_to_iso_week" /\ out.week[2] <= WeeksInYear(out.week[1]))
    => out.result = out.week

\* C24: every row of the weekly statistics, and the week_stats of the weekly
\* summary export, has total_reports = the number of stored reports of its
\* week, total_hours = the sum of their total_hours, employees_reported =
\* the number of their distinct owners and average_hours_per_employee =
\* total_hours / employees_reported rounded to hundredths; a week without
\* reports has average 0.
C24_WeeklyStats ==
    [][(/\ \/ \E a \in UserIds, sw \in WeekArgs, ew \in WeekArgs :
                get_weekly_stats(a, sw, ew)
           \/ \E a \in UserIds, w \in Weeks \cup {InvalidWeek} :
                export_weekly_summary_pdf(a, w)
        /\ out'.status = "200")
       => \A i \in 1..Len(out'.rows) :
            LET row == out'.rows[i]
                ofWeek == {d \in reports : d.week_iso = row.week_iso}
                owners == {d.user_id : d \in ofWeek}
            IN  /\ row.week_iso \in Weeks
                /\ row.total_reports = Cardinality(ofWeek)
                /\ row.total_hours = SumTotalHours(ofWeek)
                /\ row.employees_reported = Cardinality(owners)
                /\ IF ofWeek = {} THEN row.average_hours_per_employee = 0
                   ELSE /\ 2 * Cardinality(owners) * row.average_hours_per_employee
                             <= 200 * row.total_hours + Cardinality(owners)
                        /\ 2 * Cardinality(owners) * (row.average_hours_per_employee + 1)
                             > 200 * row.total_hours + Cardinality(owners)
      ]_vars

C24_Witness ==
    /\ out.op = "get_weekly_stats"
    /\ out.status = "200"
    /\ Len(out.rows) = 1
    /\ out.rows[1].total_reports = 2
    /\ out.rows[1].employees_reported = 2
    /\ out.rows[1].total_hours = 5
    /\ out.rows[1].average_hours_per_employee = 250
    /\ Cardinality({d \in reports : d.week_iso = out.rows[1].week_iso}) = 2

\* C29 as stated: while simple reports are stored, get_weekly_stats called by
\* an admin with well-formed parameters answers 200 with rows for actual
\* week_iso values only, and get_report by the owner of a simple report does
\* not answer 500.
C29_Original ==
    [][(\E d \in reports : d.week_iso = NoWeek)
       => /\ \A a \in UserIds, sw \in Weeks \cup {NoWeek}, ew \in Weeks \cup {NoWeek} :
               (get_weekly_stats(a, sw, ew) /\ users[a] # NoUser /\ users[a].role = "admin")
               => /\ out'.status = "200"
                  /\ \A i \in 1..Len(out'.rows) : out'.rows[i].week_iso \in Weeks
          /\ \A u \in UserIds, r \in ReportIds :
               (/\ get_report(u, r)
                /\ \E d \in reports : d.id = r /\ d.user_id = u /\ d.week_iso = NoWeek)
               => resp'.status # "500"
      ]_vars

\* C25 as stated: the dashboard statistics give total_messages = the number
\* of stored messages, unread_messages = the number of stored messages whose
\* read_status is false, total_reports = the number of stored reports,
\* pending_reports = the number of reports with status pending, and
\* recent_activity has at most 5 entries in descending order of timestamp.
C25_Original ==
    [][((\E u \in UserIds : get_dashboard_stats(u)) /\ out'.status = "200")
       => /\ out'.total_messages = Cardinality(messages)
          /\ out'.unread_messages = Cardinality({m \in messages : ~m.read_status})
          /\ out'.total_reports = Cardinality(reports)
          /\ out'.pending_reports = Cardinality({d \in reports : d.status = "pending"})
          /\ Len(out'.recent_activity) <= 5
          /\ \A i, j \in 1..Len(out'.recent_activity) :
                i < j => out'.recent_activity[i].timestamp >= out'.recent_activity[j].timestamp
      ]_vars

\* C26 as stated: every stored comment's report_id is the id of a stored
\* report.
C26_Original ==
    \A c \in comments : \E d \in reports : d.id = c.report_id

\* C27 as stated: an update_report, delete_report, mark_message_as_read or
\* refresh_token request of a user who holds a token and whose stored status
\* is inactive is rejected and changes no report, comment, message or token.
C27_Original ==
    [][\A u \in UserIds :
         (/\ users[u] # NoUser
          /\ users[u].status = "inactive"
          /\ tokens[u] # NoToken
          /\ \/ \E r \in ReportIds, t \in UpdateLists \cup {NoTasks} : update_report(u, r, t)
             \/ \E r \in ReportIds : delete_report(u, r)
             \/ \E m \in MessageIds : mark_message_as_read(u, m)
             \/ refresh_token(LoginToken(u)))
         => /\ resp'.status # "200"
            /\ UNCHANGED <<reports, comments, messages, tokens>>
      ]_vars

\* C28: no step changes the user_id, week_iso, status or created_at of a
\* report that stays stored, update_report and update_simple_report
\* included, and update_report without a task list leaves the tasks and
\* total_hours of every report as they were.
C28_UpdateFrame ==
    [][/\ \A d \in reports, e \in reports' :
            d.id = e.id => /\ e.user_id = d.user_id
                           /\ e.week_iso = d.week_iso
                           /\ e.status = d.status
                           /\ e.created_at = d.created_at
       /\ \A u \in UserIds, r \in ReportIds :
            update_report(u, r, NoTasks)
            => \A d \in reports : \E e \in reports' :
                  e.id = d.id /\ e.tasks = d.tasks /\ e.total_hours = d.total_hours
      ]_vars

C28_Witness ==
    /\ resp.op = "update_report"
    /\ resp.status = "200"
    /\ \E d \in reports : /\ d.id = resp.target
                           /\ d.user_id = resp.actor
                           /\ d.tasks \in TaskLists
                           /\ d.total_hours = SumHours(d.tasks)

\* C30 as stated: the subject that verify_token extracts from the token
\* returned by register is the id of the user register stored, and an
\* authenticated request with that token resolves to that user.
C30_Original ==
    /\ []((resp.op = "register" /\ resp.status = "200")
            => /\ out.op = "register"
               /\ verify_token(out.access_token).objectid = resp.actor)
    /\ [][(out.op = "register" /\ refresh_token(out.access_token))
           => /\ resp'.status = "200"
              /\ resp'.actor = out.access_token.user_id]_vars

====
